---- MODULE Spec2Model ----
(***************************************************************************)
(* Model of the deal lifecycle of core-domain (src/src/deal.ts, the        *)
(* 7-state module that starts at line 40): the transition table            *)
(* allowedTransitions, the structural validator validateDeal and the       *)
(* reducer applyStatus with its dispute-window guards.                     *)
(* Further sections model the fee and payout calculators (src/src/fees.ts, *)
(* src/unnamed/part_011), the 5-state machine (src/src/deal.ts:1-38,       *)
(* src/unnamed/part_003), the evidence merge and the milestone rules       *)
(* (src/srcsrc/milestones.ts).                                             *)
(*                                                                         *)
(* Encoding of TypeScript values:                                          *)
(*   - an optional field (buyer?, fundedPriceUsd?, evidenceCids?) is a     *)
(*     sequence of length 0 (undefined) or 1 (the value);                  *)
(*   - an ISO timestamp string is a record [parses, secs, ms]; Date.parse  *)
(*     yields its epoch milliseconds, or NaN when it does not parse;       *)
(*   - a Result is [ok |-> TRUE, value |-> d] or                           *)
(*     [ok |-> FALSE, error |-> [code |-> c, message |-> m]].              *)
(* Numbers of the model are integers and evidenceCids, when present, is an *)
(* array, so the non-integer and non-array branches of validateDeal        *)
(* (deal.ts:97, 100, 106, 114) are not exercised.                          *)
(***************************************************************************)
EXTENDS Integers, Sequences, FiniteSets, TLC

VARIABLES
    deal,     \* the caller's current Deal value
    op,       \* the function called last: "none" before any call
    input,    \* the Deal passed to the last call
    next,     \* the status argument of the last call (else the Deal's status)
    nowIso,   \* the `nowIso` argument of the last applyStatus (else unset)
    result,   \* what the last call returned (<<>> before any call)
    trail     \* the statuses the Deal has had since the caller began a log
              \* (<<>> when the caller keeps no log)

vars == <<deal, op, input, next, nowIso, result, trail>>

-----------------------------------------------------------------------------
(* Bounds of the model *)

MaxPrice == 2
MaxWindowSecs == 2
MaxAmount == 3
MaxFeeCents == 2
MaxCids == 3
MaxMilestones == 3

-----------------------------------------------------------------------------
(* Values *)

Undefined == <<>>

NaN == <<>>

Some(x) == <<x>>

DealStatuses ==
    {"INIT", "FUNDED", "DELIVERED", "DISPUTED", "RELEASED", "REFUNDED", "RESOLVED"}

Iso(secs, ms) == [parses |-> TRUE, secs |-> secs, ms |-> ms]

NotIso == [parses |-> FALSE, secs |-> 0, ms |-> 0]

\* Date.parse: epoch milliseconds of a timestamp string, NaN when unparsable.
DateParse(iso) == IF iso.parses THEN Some(iso.secs * 1000 + iso.ms) ELSE NaN

IsFinite(x) == x # NaN

\* String.prototype.trim on the strings of the model: "" and " " are blank.
Trim(s) == IF s = " " THEN "" ELSE s

includes(arr, x) == \E i \in DOMAIN arr : arr[i] = x

Range(arr) == {arr[i] : i \in DOMAIN arr}

ok(value) == [ok |-> TRUE, value |-> value]

err(code, message) == [ok |-> FALSE, error |-> [code |-> code, message |-> message]]

-----------------------------------------------------------------------------
(* Helpers of deal.ts *)

isNonEmptyId(x) == Trim(x) # ""

isNonEmptyString(x) == Trim(x) # ""

isUsdCents(x) == x \in Int

isIso(x) == IsFinite(DateParse(x))

isDealStatus(x) == x \in DealStatuses

\* Mutant: the window end is excluded (now < windowEnd).
isWithinDisputeWindow_Exclusive(deliveryDeadlineIso, windowSecs, now) ==
    LET deadline == DateParse(deliveryDeadlineIso)
        nowMs == DateParse(now)
    IN  IF ~IsFinite(deadline) \/ ~IsFinite(nowMs)
        THEN FALSE
        ELSE LET windowEnd == deadline[1] + windowSecs * 1000
             IN  nowMs[1] < windowEnd

\* Mutant: the comparison is reversed, so the window opens at its end.
isWithinDisputeWindow_OpensAtEnd(deliveryDeadlineIso, windowSecs, now) ==
    LET deadline == DateParse(deliveryDeadlineIso)
        nowMs == DateParse(now)
    IN  IF ~IsFinite(deadline) \/ ~IsFinite(nowMs)
        THEN FALSE
        ELSE LET windowEnd == deadline[1] + windowSecs * 1000
             IN  nowMs[1] >= windowEnd

isWithinDisputeWindow(deliveryDeadlineIso, windowSecs, now) ==
    LET deadline == DateParse(deliveryDeadlineIso)
        nowMs == DateParse(now)
    IN  IF ~IsFinite(deadline) \/ ~IsFinite(nowMs)
        THEN FALSE
        ELSE LET windowEnd == deadline[1] + windowSecs * 1000
             IN  nowMs[1] <= windowEnd

-----------------------------------------------------------------------------
(* Public API of deal.ts *)

\* Mutant: RESOLVED gets the execution edges RELEASED and REFUNDED.
allowedTransitions_ResolvedExecutes(from) ==
    CASE from = "INIT" -> <<"FUNDED">>
      [] from = "FUNDED" -> <<"DELIVERED", "DISPUTED">>
      [] from = "DELIVERED" -> <<"RELEASED", "DISPUTED">>
      [] from = "DISPUTED" -> <<"RESOLVED">>
      [] from = "RESOLVED" -> <<"RELEASED", "REFUNDED">>
      [] from \in {"RELEASED", "REFUNDED"} -> <<>>
      [] OTHER -> <<>>

\* Mutant: a released deal can still be disputed.
allowedTransitions_ReleasedReopens(from) ==
    CASE from = "INIT" -> <<"FUNDED">>
      [] from = "FUNDED" -> <<"DELIVERED", "DISPUTED">>
      [] from = "DELIVERED" -> <<"RELEASED", "DISPUTED">>
      [] from = "DISPUTED" -> <<"RESOLVED">>
      [] from = "RELEASED" -> <<"DISPUTED">>
      [] from \in {"REFUNDED", "RESOLVED"} -> <<>>
      [] OTHER -> <<>>

\* Mutant: a dispute can be dropped, returning the deal to DELIVERED.
allowedTransitions_DisputeReturns(from) ==
    CASE from = "INIT" -> <<"FUNDED">>
      [] from = "FUNDED" -> <<"DELIVERED", "DISPUTED">>
      [] from = "DELIVERED" -> <<"RELEASED", "DISPUTED">>
      [] from = "DISPUTED" -> <<"RESOLVED", "DELIVERED">>
      [] from \in {"RELEASED", "REFUNDED", "RESOLVED"} -> <<>>
      [] OTHER -> <<>>

allowedTransitions(from) ==
    CASE from = "INIT" -> <<"FUNDED">>
      [] from = "FUNDED" -> <<"DELIVERED", "DISPUTED">>
      [] from = "DELIVERED" -> <<"RELEASED", "DISPUTED">>
      [] from = "DISPUTED" -> <<"RESOLVED">>
      [] from \in {"RELEASED", "REFUNDED", "RESOLVED"} -> <<>>
      [] OTHER -> <<>>

hasDuplicates(arr) == Cardinality(Range(arr)) # Len(arr)

\* Mutant: the equality rule is applied in INIT instead of after INIT.
fundedPriceMismatch_InitOnly(d) ==
    d.status = "INIT" /\ d.fundedPriceUsd # Undefined /\ d.fundedPriceUsd[1] # d.priceUsd

\* deal.ts:132, the status-conditional rule fundedPriceUsd = priceUsd
fundedPriceMismatch(d) ==
    d.status # "INIT" /\ d.fundedPriceUsd # Undefined /\ d.fundedPriceUsd[1] # d.priceUsd

\* Mutant: the fundedPriceUsd equality rule is checked with the price,
\* before the deadline.
validateDeal_EqualityWithPrice(d) ==
    IF ~isNonEmptyId(d.dealId)
    THEN err("E_DEAL_INVALID", <<"Missing or empty dealId">>)
    ELSE IF ~isNonEmptyId(d.seller)
    THEN err("E_DEAL_INVALID", <<"Missing or empty seller">>)
    ELSE IF ~isUsdCents(d.priceUsd) \/ d.priceUsd <= 0
    THEN err("E_DEAL_INVALID", <<"priceUsd must be positive cents">>)
    ELSE IF d.fundedPriceUsd # Undefined
            /\ (~isUsdCents(d.fundedPriceUsd[1]) \/ d.fundedPriceUsd[1] <= 0)
    THEN err("E_DEAL_INVALID", <<"fundedPriceUsd must be positive cents when present">>)
    ELSE IF fundedPriceMismatch(d)
    THEN err("E_DEAL_INVALID", <<"fundedPriceUsd must equal priceUsd (baseline policy)">>)
    ELSE IF ~isIso(d.deliveryDeadline)
    THEN err("E_DEAL_INVALID", <<"deliveryDeadline must be ISO string">>)
    ELSE IF d.disputeWindowSecs \notin Int \/ d.disputeWindowSecs <= 0
    THEN err("E_DEAL_INVALID", <<"disputeWindowSecs must be > 0">>)
    ELSE IF ~isDealStatus(d.status)
    THEN err("E_DEAL_INVALID", <<"Unknown status: ", d.status>>)
    ELSE IF d.evidenceCids # Undefined
            /\ \E i \in DOMAIN d.evidenceCids[1] : ~isNonEmptyString(d.evidenceCids[1][i])
    THEN err("E_DEAL_INVALID", <<"evidenceCids must contain non-empty strings">>)
    ELSE IF d.evidenceCids # Undefined /\ hasDuplicates(d.evidenceCids[1])
    THEN err("E_DEAL_INVALID", <<"evidenceCids contains duplicates">>)
    ELSE IF d.status # "INIT" /\ d.buyer = Undefined
    THEN err("E_DEAL_INVALID", <<"buyer must be set once deal leaves INIT">>)
    ELSE ok(d)

validateDeal(d) ==
    IF ~isNonEmptyId(d.dealId)
    THEN err("E_DEAL_INVALID", <<"Missing or empty dealId">>)
    ELSE IF ~isNonEmptyId(d.seller)
    THEN err("E_DEAL_INVALID", <<"Missing or empty seller">>)
    ELSE IF ~isUsdCents(d.priceUsd) \/ d.priceUsd <= 0
    THEN err("E_DEAL_INVALID", <<"priceUsd must be positive cents">>)
    ELSE IF d.fundedPriceUsd # Undefined
            /\ (~isUsdCents(d.fundedPriceUsd[1]) \/ d.fundedPriceUsd[1] <= 0)
    THEN err("E_DEAL_INVALID", <<"fundedPriceUsd must be positive cents when present">>)
    ELSE IF ~isIso(d.deliveryDeadline)
    THEN err("E_DEAL_INVALID", <<"deliveryDeadline must be ISO string">>)
    ELSE IF d.disputeWindowSecs \notin Int \/ d.disputeWindowSecs <= 0
    THEN err("E_DEAL_INVALID", <<"disputeWindowSecs must be > 0">>)
    ELSE IF ~isDealStatus(d.status)
    THEN err("E_DEAL_INVALID", <<"Unknown status: ", d.status>>)
    ELSE IF d.evidenceCids # Undefined
            /\ \E i \in DOMAIN d.evidenceCids[1] : ~isNonEmptyString(d.evidenceCids[1][i])
    THEN err("E_DEAL_INVALID", <<"evidenceCids must contain non-empty strings">>)
    ELSE IF d.evidenceCids # Undefined /\ hasDuplicates(d.evidenceCids[1])
    THEN err("E_DEAL_INVALID", <<"evidenceCids contains duplicates">>)
    ELSE IF d.status # "INIT" /\ d.buyer = Undefined
    THEN err("E_DEAL_INVALID", <<"buyer must be set once deal leaves INIT">>)
    ELSE IF fundedPriceMismatch(d)
    THEN err("E_DEAL_INVALID", <<"fundedPriceUsd must equal priceUsd (baseline policy)">>)
    ELSE ok(d)

\* Mutant: the no-op shortcut is missing.
isNoOp_Missing(d, to) == FALSE

\* deal.ts:160, the quick no-op test
isNoOp(d, to) == d.status = to

\* Mutant: the table is looked up in the reverse direction.
transitionBlocked_Reversed(d, to) == ~includes(allowedTransitions(to), d.status)

\* deal.ts:163, the table test
transitionBlocked(d, to) == ~includes(allowedTransitions(d.status), to)

\* deal.ts:168-171, the guard on entering DISPUTED
disputeWindowExpired(d, to, now) ==
    /\ to = "DISPUTED"
    /\ ~isWithinDisputeWindow(d.deliveryDeadline, d.disputeWindowSecs, now)

\* Mutant: a late RELEASED is blocked like a late REFUNDED.
lateExecutionBlocked_NoReleaseExemption(d, to, now) ==
    /\ (to = "RELEASED" \/ to = "REFUNDED") /\ d.status = "DELIVERED"
    /\ ~isWithinDisputeWindow(d.deliveryDeadline, d.disputeWindowSecs, now)

\* deal.ts:174-180, the guard on RELEASED / REFUNDED after DELIVERED
lateExecutionBlocked(d, to, now) ==
    /\ (to = "RELEASED" \/ to = "REFUNDED") /\ d.status = "DELIVERED"
    /\ ~isWithinDisputeWindow(d.deliveryDeadline, d.disputeWindowSecs, now)
    /\ to # "RELEASED"

\* Mutant: the transition also snapshots the price into fundedPriceUsd.
applyStatus_SnapshotsPrice(d, to, now) ==
    LET v == validateDeal(d)
    IN  IF ~v.ok THEN v
        ELSE IF isNoOp(d, to) THEN ok(d)
        ELSE IF transitionBlocked(d, to)
        THEN err("E_TRANSITION_BLOCKED", <<"Transition ", d.status, " -> ", to, " not allowed">>)
        ELSE IF disputeWindowExpired(d, to, now)
        THEN err("E_TIME_WINDOW", <<"Dispute window has expired">>)
        ELSE IF lateExecutionBlocked(d, to, now)
        THEN err("E_TIME_WINDOW", <<"Cannot ", to, " after dispute window without resolution">>)
        ELSE ok([d EXCEPT !.status = to, !.fundedPriceUsd = Some(d.priceUsd)])

\* Mutant: the dispute-window guard runs before the table test.
applyStatus_WindowBeforeTable(d, to, now) ==
    LET v == validateDeal(d)
    IN  IF ~v.ok THEN v
        ELSE IF isNoOp(d, to) THEN ok(d)
        ELSE IF disputeWindowExpired(d, to, now)
        THEN err("E_TIME_WINDOW", <<"Dispute window has expired">>)
        ELSE IF transitionBlocked(d, to)
        THEN err("E_TRANSITION_BLOCKED", <<"Transition ", d.status, " -> ", to, " not allowed">>)
        ELSE IF lateExecutionBlocked(d, to, now)
        THEN err("E_TIME_WINDOW", <<"Cannot ", to, " after dispute window without resolution">>)
        ELSE ok([d EXCEPT !.status = to])

applyStatus(d, to, now) ==
    LET v == validateDeal(d)
    IN  IF ~v.ok THEN v
        ELSE IF isNoOp(d, to) THEN ok(d)
        ELSE IF transitionBlocked(d, to)
        THEN err("E_TRANSITION_BLOCKED", <<"Transition ", d.status, " -> ", to, " not allowed">>)
        ELSE IF disputeWindowExpired(d, to, now)
        THEN err("E_TIME_WINDOW", <<"Dispute window has expired">>)
        ELSE IF lateExecutionBlocked(d, to, now)
        THEN err("E_TIME_WINDOW", <<"Cannot ", to, " after dispute window without resolution">>)
        ELSE ok([d EXCEPT !.status = to])

-----------------------------------------------------------------------------
(* Inputs *)

Deadline == Iso(1, 0)

BaseDeal ==
    [dealId |-> "d1", seller |-> "s1", buyer |-> Some("b1"),
     priceUsd |-> 1, fundedPriceUsd |-> Undefined,
     deliveryDeadline |-> Deadline, disputeWindowSecs |-> 1,
     status |-> "INIT", evidenceCids |-> Some(<<"c1", "c2">>)]

\* Deals varying in the fields the lifecycle reads.
LifecycleDeals ==
    {[BaseDeal EXCEPT !.status = s, !.buyer = b, !.priceUsd = p,
                      !.fundedPriceUsd = f, !.disputeWindowSecs = w] :
        s \in DealStatuses,
        b \in {Undefined, Some("b1")},
        p \in 1..MaxPrice,
        f \in {Undefined} \cup {Some(x) : x \in 1..MaxPrice},
        w \in 1..MaxWindowSecs}

\* Deals with one structural defect (or an absent evidence list) in every status.
DefectDeals ==
    UNION {{[BaseDeal EXCEPT !.status = "BOGUS"],
            [BaseDeal EXCEPT !.status = s, !.dealId = " "],
            [BaseDeal EXCEPT !.status = s, !.seller = ""],
            [BaseDeal EXCEPT !.status = s, !.priceUsd = 0],
            [BaseDeal EXCEPT !.status = s, !.fundedPriceUsd = Some(0)],
            [BaseDeal EXCEPT !.status = s, !.disputeWindowSecs = 0],
            [BaseDeal EXCEPT !.status = s, !.deliveryDeadline = NotIso],
            [BaseDeal EXCEPT !.status = s, !.evidenceCids = Some(<<"c1", "c1">>)],
            [BaseDeal EXCEPT !.status = s, !.evidenceCids = Some(<<"c1", " ">>)],
            [BaseDeal EXCEPT !.status = s, !.evidenceCids = Undefined]} :
           s \in DealStatuses}

Deals == LifecycleDeals \cup DefectDeals

NowSecs == 0..(Deadline.secs + MaxWindowSecs + 1)

Nows == {NotIso} \cup {Iso(s, ms) : s \in NowSecs, ms \in {0, 1}}

-----------------------------------------------------------------------------
(* The caller: holds a Deal and calls the pure functions on it. *)

Init ==
    /\ deal \in Deals
    /\ op = "none"
    /\ input = deal
    /\ next = deal.status
    /\ nowIso = NotIso
    /\ result = <<>>
    /\ trail = <<>>

IsSevenStateDeal(d) == "dealId" \in DOMAIN d

\* The caller's log after the Deal's status has become `status`.
Logged(status) ==
    IF trail = <<>> \/ trail[Len(trail)] = status THEN trail
    ELSE Append(trail, status)

\* applyStatus(deal, to, now); the caller keeps the new Deal on success.
ApplyStatus(to, now) ==
    /\ IsSevenStateDeal(deal)
    /\ op' = "applyStatus"
    /\ input' = deal
    /\ next' = to
    /\ nowIso' = now
    /\ result' = applyStatus(deal, to, now)
    /\ deal' = IF result'.ok THEN result'.value ELSE deal
    /\ trail' = Logged(deal'.status)

ValidateDeal ==
    /\ op' = "validateDeal"
    /\ input' = deal
    /\ next' = deal.status
    /\ nowIso' = NotIso
    /\ result' = validateDeal(deal)
    /\ UNCHANGED <<deal, trail>>

AllowedTransitions(from) ==
    /\ op' = "allowedTransitions"
    /\ input' = deal
    /\ next' = from
    /\ nowIso' = NotIso
    /\ result' = ok(allowedTransitions(from))
    /\ UNCHANGED <<deal, trail>>

Next ==
    \/ \E to \in DealStatuses, now \in Nows : ApplyStatus(to, now)
    \/ ValidateDeal
    \/ \E from \in DealStatuses : AllowedTransitions(from)

Spec == Init /\ [][Next]_vars

-----------------------------------------------------------------------------
(* validateDeal on deals with any combination of structural defects *)

ValidateDeals ==
    [dealId : {"d1", " "},
     seller : {"s1", ""},
     buyer : {Undefined, Some("b1")},
     priceUsd : 0..MaxPrice,
     fundedPriceUsd : {Undefined} \cup {Some(x) : x \in 0..MaxPrice},
     deliveryDeadline : {Deadline, NotIso},
     disputeWindowSecs : {0, MaxWindowSecs},
     status : {"INIT", "FUNDED", "BOGUS"},
     evidenceCids : {Undefined, Some(<<"c1", "c2">>), Some(<<"c1", "c1">>),
                     Some(<<" ", " ">>)}]

InitValidate ==
    /\ deal \in ValidateDeals
    /\ op = "none"
    /\ input = deal
    /\ next = deal.status
    /\ nowIso = NotIso
    /\ result = <<>>
    /\ trail = <<>>

NextValidate == ValidateDeal

SpecValidate == InitValidate /\ [][NextValidate]_vars

-----------------------------------------------------------------------------
(* Fee and payout calculators (src/src/fees.ts, src/unnamed/part_011).     *)
(* A call either returns its value or throws: a thrown Error is the record *)
(* [thrown |-> "Error", message |-> m].                                    *)

BPS_DIVISOR == 10000

Abs(x) == IF x < 0 THEN -x ELSE x

\* bigint division: the quotient truncated toward zero.
BigIntDiv(a, b) ==
    IF (a < 0) = (b < 0) THEN Abs(a) \div Abs(b) ELSE -(Abs(a) \div Abs(b))

Throw(message) == [thrown |-> "Error", message |-> message]

\* Mutant: only the ceiling is applied.
clampFee_NoFloor(fee, min, max) == IF fee > max THEN max ELSE fee

\* fees.ts:34-35
clampFee(fee, min, max) ==
    LET floored == IF fee < min THEN min ELSE fee
    IN  IF floored > max THEN max ELSE floored

\* Mutant: the seller is charged the platform's net share only.
netMath_SellerPaysPlatformNet(amountCents, fee, affiliateReward) ==
    LET platformNet == fee - affiliateReward
    IN  [totalEscrow |-> amountCents,
         platformNet |-> platformNet,
         affiliateReward |-> affiliateReward,
         sellerReceivable |-> amountCents - platformNet]

\* fees.ts:43-52
netMath(amountCents, fee, affiliateReward) ==
    LET platformNet == fee - affiliateReward
        sellerReceivable == amountCents - fee
    IN  [totalEscrow |-> amountCents,
         platformNet |-> platformNet,
         affiliateReward |-> affiliateReward,
         sellerReceivable |-> sellerReceivable]

calculatePayouts(amountCents, config, hasAffiliate) ==
    LET gross == BigIntDiv(amountCents * config.baseRateBps, BPS_DIVISOR)
        fee == clampFee(gross, config.minFeeCents, config.maxFeeCents)
        affiliateReward ==
            IF hasAffiliate
            THEN BigIntDiv(fee * config.affiliateShareBps, BPS_DIVISOR)
            ELSE 0
    IN  netMath(amountCents, fee, affiliateReward)

\* Mutant: the upper limit of protocolFeeBps is not checked.
protocolFeeBpsOutOfRange_NoUpperLimit(protocolFeeBps) == protocolFeeBps < 0

\* part_011:95
protocolFeeBpsOutOfRange(protocolFeeBps) ==
    protocolFeeBps < 0 \/ protocolFeeBps > 10000

\* Mutant: an unspecified buyer share means no refund.
buyerShareOf_DefaultZero(resolution) ==
    IF resolution.buyerShareBps = Undefined THEN 0 ELSE resolution.buyerShareBps[1]

\* part_011:118-119, resolution.buyerShareBps ?? 5_000
buyerShareOf(resolution) ==
    IF resolution.buyerShareBps = Undefined THEN 5000 ELSE resolution.buyerShareBps[1]

\* Mutant: the seller's part is rounded down on its own.
splitPayout_BothRoundedDown(net, buyerShareBps, fee) ==
    [buyerRefund |-> BigIntDiv(net * buyerShareBps, 10000),
     sellerPayout |-> BigIntDiv(net * (10000 - buyerShareBps), 10000),
     protocolFee |-> fee]

\* part_011:124-131
splitPayout(net, buyerShareBps, fee) ==
    LET buyerRefund == BigIntDiv(net * buyerShareBps, 10000)
        sellerPayout == net - buyerRefund
    IN  [buyerRefund |-> buyerRefund,
         sellerPayout |-> sellerPayout,
         protocolFee |-> fee]

computePayouts(funding, resolution) ==
    LET amountTotal == funding.amountTotal
        protocolFeeBps == funding.protocolFeeBps
    IN  IF amountTotal < 0
        THEN Throw(<<"amountTotal must be non-negative">>)
        ELSE IF protocolFeeBpsOutOfRange(protocolFeeBps)
        THEN Throw(<<"protocolFeeBps must be between 0 and 10_000">>)
        ELSE LET fee == BigIntDiv(amountTotal * protocolFeeBps, 10000)
                 net == amountTotal - fee
             IN  CASE resolution.kind = "release_to_seller" ->
                        [buyerRefund |-> 0, sellerPayout |-> net, protocolFee |-> fee]
                   [] resolution.kind = "refund_to_buyer" ->
                        [buyerRefund |-> net, sellerPayout |-> 0, protocolFee |-> fee]
                   [] resolution.kind = "split" ->
                        LET buyerShareBps == buyerShareOf(resolution)
                        IN  IF buyerShareBps < 0 \/ buyerShareBps > 10000
                            THEN Throw(<<"buyerShareBps must be between 0 and 10_000">>)
                            ELSE splitPayout(net, buyerShareBps, fee)
                   [] OTHER ->
                        Throw(<<"Unhandled resolution kind: ", resolution.kind>>)

-----------------------------------------------------------------------------
(* Inputs of the calculators *)

Amounts == (-1..MaxAmount) \cup {9999, 10000, 10001, 33333}

BpsValues == {-1, 0, 1, 500, 3000, 3333, 5000, 9999, 10000, 10001}

FeeLimits == (0..MaxFeeCents) \cup {500}

FeeInputs ==
    [amountCents : Amounts,
     config : [baseRateBps : {0, 100, 3333, 10000},
               minFeeCents : FeeLimits,
               maxFeeCents : FeeLimits,
               affiliateShareBps : {0, 2000, 10000}],
     hasAffiliate : BOOLEAN]

ResolutionKinds == {"release_to_seller", "refund_to_buyer", "split"}

PayoutInputs ==
    [funding : [amountTotal : Amounts, protocolFeeBps : BpsValues],
     resolution : [kind : ResolutionKinds,
                   buyerShareBps : {Undefined} \cup {Some(b) : b \in BpsValues}]]

InitFees ==
    /\ input \in FeeInputs
    /\ op = "none"
    /\ deal = BaseDeal
    /\ next = deal.status
    /\ nowIso = NotIso
    /\ result = <<>>
    /\ trail = <<>>

CalculatePayouts ==
    /\ "amountCents" \in DOMAIN input
    /\ op' = "calculatePayouts"
    /\ result' = calculatePayouts(input.amountCents, input.config, input.hasAffiliate)
    /\ UNCHANGED <<deal, input, next, nowIso, trail>>

NextFees == CalculatePayouts

SpecFees == InitFees /\ [][NextFees]_vars

InitPayouts ==
    /\ input \in PayoutInputs
    /\ op = "none"
    /\ deal = BaseDeal
    /\ next = deal.status
    /\ nowIso = NotIso
    /\ result = <<>>
    /\ trail = <<>>

ComputePayouts ==
    /\ "funding" \in DOMAIN input
    /\ op' = "computePayouts"
    /\ result' = computePayouts(input.funding, input.resolution)
    /\ UNCHANGED <<deal, input, next, nowIso, trail>>

NextPayouts == ComputePayouts

SpecPayouts == InitPayouts /\ [][NextPayouts]_vars

-----------------------------------------------------------------------------
(* Every public operation of the core, on every input above *)

InitPublicApi == Init \/ InitFees \/ InitPayouts

NextPublicApi == Next \/ CalculatePayouts \/ ComputePayouts

SpecPublicApi == InitPublicApi /\ [][NextPublicApi]_vars

-----------------------------------------------------------------------------
(* The 5-state machine (src/src/deal.ts:1-38, src/src/types.ts) and the     *)
(* string-set variant of its predicate (src/unnamed/part_003).              *)
(* A thrown DomainError is [thrown |-> "DomainError", code, message].       *)

DealStatus == {"INITIATED", "FUNDED", "RELEASED", "DISPUTED", "REFUNDED"}

\* Mutant: a refund straight from FUNDED.
TRANSITIONS_FundedRefunds ==
    [from \in DealStatus |->
        CASE from = "INITIATED" -> <<"FUNDED">>
          [] from = "FUNDED" -> <<"RELEASED", "DISPUTED", "REFUNDED">>
          [] from = "RELEASED" -> <<>>
          [] from = "DISPUTED" -> <<"RELEASED", "REFUNDED">>
          [] from = "REFUNDED" -> <<>>]

TRANSITIONS ==
    [from \in DealStatus |->
        CASE from = "INITIATED" -> <<"FUNDED">>
          [] from = "FUNDED" -> <<"RELEASED", "DISPUTED">>
          [] from = "RELEASED" -> <<>>
          [] from = "DISPUTED" -> <<"RELEASED", "REFUNDED">>
          [] from = "REFUNDED" -> <<>>]

\* from === to || TRANSITIONS[from]?.includes(to) === true
isTransitionAllowed(from, to) ==
    \/ from = to
    \/ from \in DOMAIN TRANSITIONS /\ includes(TRANSITIONS[from], to)

\* Mutant: the set lacks the refund of a dispute.
allowed_NoRefund ==
    {"INITIATED->FUNDED", "FUNDED->RELEASED", "FUNDED->DISPUTED",
     "DISPUTED->RELEASED"}

allowed ==
    {"INITIATED->FUNDED", "FUNDED->RELEASED", "FUNDED->DISPUTED",
     "DISPUTED->RELEASED", "DISPUTED->REFUNDED"}

\* The template string `${from}->${to}`.
TransitionKey(from, to) == from \o "->" \o to

isTransitionAllowedBySet(from, to) ==
    IF from = to THEN TRUE ELSE TransitionKey(from, to) \in allowed

ThrowDomainError(code, message) ==
    [thrown |-> "DomainError", code |-> code, message |-> message]

\* applyStatus of the 5-state machine: the new deal, or a thrown DomainError.
applyStatusFiveState(d, to) ==
    IF ~isTransitionAllowed(d.status, to)
    THEN ThrowDomainError("ERR_ILLEGAL_TRANSITION",
                          <<"Illegal transition ", d.status, " -> ", to>>)
    ELSE [d EXCEPT !.status = to]

FiveStateDeals ==
    {[id |-> "d1", buyer |-> "b1", seller |-> "s1",
      amount |-> [value |-> v, currency |-> "USDC"],
      createdAt |-> 0, status |-> s] :
        v \in 1..MaxPrice, s \in DealStatus}

\* Status arguments: the enum and one string outside it.
StatusArgs == DealStatus \cup {"DELIVERED"}

IsFiveStateDeal(d) == "amount" \in DOMAIN d

\* The caller holds a 5-state deal and logs its statuses.
InitFiveState ==
    /\ deal \in FiveStateDeals
    /\ op = "none"
    /\ input = deal
    /\ next = deal.status
    /\ nowIso = NotIso
    /\ result = <<>>
    /\ trail = <<deal.status>>

\* applyStatus(deal, to); the caller keeps the new deal unless it throws.
ApplyStatusFiveState(to) ==
    /\ IsFiveStateDeal(deal)
    /\ op' = "applyStatusFiveState"
    /\ input' = deal
    /\ next' = to
    /\ nowIso' = NotIso
    /\ result' = applyStatusFiveState(deal, to)
    /\ deal' = IF "thrown" \in DOMAIN result' THEN deal ELSE result'
    /\ trail' = Logged(deal'.status)

IsTransitionAllowed(from, to) ==
    /\ IsFiveStateDeal(deal)
    /\ op' = "isTransitionAllowed"
    /\ input' = <<from, to>>
    /\ next' = to
    /\ nowIso' = NotIso
    /\ result' = ok(isTransitionAllowed(from, to))
    /\ UNCHANGED <<deal, trail>>

IsTransitionAllowedBySet(from, to) ==
    /\ IsFiveStateDeal(deal)
    /\ op' = "isTransitionAllowedBySet"
    /\ input' = <<from, to>>
    /\ next' = to
    /\ nowIso' = NotIso
    /\ result' = ok(isTransitionAllowedBySet(from, to))
    /\ UNCHANGED <<deal, trail>>

NextFiveState ==
    \/ \E to \in DealStatus : ApplyStatusFiveState(to)
    \/ \E from \in StatusArgs, to \in StatusArgs : IsTransitionAllowed(from, to)
    \/ \E from \in StatusArgs, to \in StatusArgs : IsTransitionAllowedBySet(from, to)

SpecFiveState == InitFiveState /\ [][NextFiveState]_vars

-----------------------------------------------------------------------------
(* Evidence lists (src/srcsrc/milestones.ts:249-269). An absent list and    *)
(* the empty list are both <<>>, which is what `existing || []` makes of    *)
(* them.                                                                    *)

RECURSIVE pushUnseen(_, _)
\* One `for (const c of arr)` loop over the accumulators out and seen.
pushUnseen(acc, arr) ==
    IF arr = <<>> THEN acc
    ELSE LET c == Head(arr)
         IN  pushUnseen(IF isNonEmptyString(c) /\ c \notin acc.seen
                        THEN [out |-> Append(acc.out, c), seen |-> acc.seen \cup {c}]
                        ELSE acc,
                        Tail(arr))

\* Mutant: the incoming CIDs are taken first.
mergeEvidence_IncomingFirst(existing, incoming) ==
    pushUnseen(pushUnseen([out |-> <<>>, seen |-> {}], incoming), existing).out

mergeEvidence(existing, incoming) ==
    pushUnseen(pushUnseen([out |-> <<>>, seen |-> {}], existing), incoming).out

Cids == {"c1", "c2", "c3", " "}

CidLists == UNION {[1..n -> Cids] : n \in 0..MaxCids}

EvidenceInputs == [existing : CidLists, incoming : CidLists]

InitEvidence ==
    /\ input \in EvidenceInputs
    /\ op = "none"
    /\ deal = BaseDeal
    /\ next = deal.status
    /\ nowIso = NotIso
    /\ result = <<>>
    /\ trail = <<>>

MergeEvidence ==
    /\ "existing" \in DOMAIN input
    /\ op' = "mergeEvidence"
    /\ result' = mergeEvidence(input.existing, input.incoming)
    /\ UNCHANGED <<deal, input, next, nowIso, trail>>

NextEvidence == MergeEvidence

SpecEvidence == InitEvidence /\ [][NextEvidence]_vars

-----------------------------------------------------------------------------
(* Milestones (src/srcsrc/milestones.ts:1-53). Array indices of the model   *)
(* start at 1, so the code's sorted[i] with i from 0 is sorted[i + 1] here. *)

MilestoneStatus == {"PENDING", "ACTIVE", "SUBMITTED", "APPROVED", "REJECTED"}

RECURSIVE reduceSum(_)
\* milestones.reduce((acc, m) => acc + m.amountCents, 0)
reduceSum(milestones) ==
    IF milestones = <<>> THEN 0
    ELSE reduceSum(SubSeq(milestones, 1, Len(milestones) - 1))
            + milestones[Len(milestones)].amountCents

\* m placed after the elements of the sorted array whose order is not greater.
insertByOrder(sorted, m) ==
    LET k == Cardinality({i \in DOMAIN sorted : sorted[i].order <= m.order})
    IN  SubSeq(sorted, 1, k) \o <<m>> \o SubSeq(sorted, k + 1, Len(sorted))

RECURSIVE sortByOrder(_)
\* [...milestones].sort((a, b) => a.order - b.order), a stable sort
sortByOrder(milestones) ==
    IF milestones = <<>> THEN <<>>
    ELSE insertByOrder(sortByOrder(SubSeq(milestones, 1, Len(milestones) - 1)),
                       milestones[Len(milestones)])

\* Mutant: the sequence is required to start at order 0.
validateMilestoneSet_ZeroBased(milestones, totalDealValue) ==
    IF reduceSum(milestones) # totalDealValue THEN FALSE
    ELSE LET sorted == sortByOrder(milestones)
         IN  \A i \in 0..(Len(sorted) - 1) : sorted[i + 1].order = i

validateMilestoneSet(milestones, totalDealValue) ==
    IF reduceSum(milestones) # totalDealValue THEN FALSE
    ELSE LET sorted == sortByOrder(milestones)
         IN  \A i \in 0..(Len(sorted) - 1) : sorted[i + 1].order = i + 1

\* allMilestones.find(m => m.order === order): the first match or undefined
findByOrder(allMilestones, order) ==
    LET matches == {i \in DOMAIN allMilestones : allMilestones[i].order = order}
    IN  IF matches = {} THEN Undefined
        ELSE Some(allMilestones[CHOOSE i \in matches : \A j \in matches : i <= j])

\* Mutant: any previous milestone will do, whatever its status.
canActivateMilestone_AnyPrevious(targetMilestone, allMilestones) ==
    IF targetMilestone.order = 1 THEN TRUE
    ELSE findByOrder(allMilestones, targetMilestone.order - 1) # Undefined

canActivateMilestone(targetMilestone, allMilestones) ==
    IF targetMilestone.order = 1 THEN TRUE
    ELSE LET previous == findByOrder(allMilestones, targetMilestone.order - 1)
         IN  previous # Undefined /\ previous[1].status = "APPROVED"

Milestone(order, amountCents, status) ==
    [id |-> "m", title |-> "t", amountCents |-> amountCents,
     status |-> status, order |-> order]

Orders == 0..MaxMilestones

\* Milestone sets with varying orders and amounts.
PricedMilestones ==
    {Milestone(o, a, "PENDING") : o \in Orders, a \in 1..2}

MilestoneSetInputs ==
    [milestones : UNION {[1..n -> PricedMilestones] : n \in 0..MaxMilestones},
     totalDealValue : 0..(2 * MaxMilestones)]

\* Milestone sets with varying orders and statuses.
StagedMilestones ==
    {Milestone(o, 1, st) : o \in Orders, st \in MilestoneStatus}

ActivationInputs ==
    [targetMilestone : {Milestone(o, 1, "PENDING") : o \in 0..(MaxMilestones + 1)},
     allMilestones : UNION {[1..n -> StagedMilestones] : n \in 0..(MaxMilestones - 1)}]

InitMilestones ==
    /\ input \in MilestoneSetInputs \cup ActivationInputs
    /\ op = "none"
    /\ deal = BaseDeal
    /\ next = deal.status
    /\ nowIso = NotIso
    /\ result = <<>>
    /\ trail = <<>>

ValidateMilestoneSet ==
    /\ "totalDealValue" \in DOMAIN input
    /\ op' = "validateMilestoneSet"
    /\ result' = ok(validateMilestoneSet(input.milestones, input.totalDealValue))
    /\ UNCHANGED <<deal, input, next, nowIso, trail>>

CanActivateMilestone ==
    /\ "targetMilestone" \in DOMAIN input
    /\ op' = "canActivateMilestone"
    /\ result' = ok(canActivateMilestone(input.targetMilestone, input.allMilestones))
    /\ UNCHANGED <<deal, input, next, nowIso, trail>>

NextMilestones == ValidateMilestoneSet \/ CanActivateMilestone

SpecMilestones == InitMilestones /\ [][NextMilestones]_vars

-----------------------------------------------------------------------------
(* Lifecycles: a caller of either machine that logs the statuses its deal   *)
(* takes, starting from any status.                                         *)

LoggedDeals == {d \in LifecycleDeals : d.priceUsd = 1}

InitLogged ==
    /\ deal \in LoggedDeals
    /\ op = "none"
    /\ input = deal
    /\ next = deal.status
    /\ nowIso = NotIso
    /\ result = <<>>
    /\ trail = <<deal.status>>

InitLifecycles == InitLogged \/ InitFiveState

NextLifecycles ==
    \/ \E to \in DealStatuses, now \in Nows : ApplyStatus(to, now)
    \/ \E to \in DealStatus : ApplyStatusFiveState(to)

SpecLifecycles == InitLifecycles /\ [][NextLifecycles]_vars

-----------------------------------------------------------------------------
(* Vocabulary of the properties *)

Valid(d) == validateDeal(d).ok

Applied == op = "applyStatus"

Validated == op = "validateDeal"

Queried == op = "allowedTransitions"

FailedWith(code) == ~result.ok /\ result.error.code = code

InTable(from, to) == includes(allowedTransitions(from), to)

\* deliveryDeadline + disputeWindowSecs, in epoch milliseconds
WindowEndMs(d) ==
    (d.deliveryDeadline.secs + d.disputeWindowSecs) * 1000 + d.deliveryDeadline.ms

NowMs == nowIso.secs * 1000 + nowIso.ms

NowAfterWindow == nowIso.parses /\ NowMs > WindowEndMs(input)

NowInWindow == nowIso.parses /\ NowMs <= WindowEndMs(input)

\* The table of spec.md section 4.1.
TableInSpec(s) ==
    CASE s = "INIT" -> {"FUNDED"}
      [] s = "FUNDED" -> {"DELIVERED", "DISPUTED"}
      [] s = "DELIVERED" -> {"RELEASED", "DISPUTED"}
      [] s = "DISPUTED" -> {"RESOLVED"}
      [] s = "RESOLVED" -> {"RELEASED", "REFUNDED"}
      [] s = "RELEASED" -> {}
      [] s = "REFUNDED" -> {}

\* The same table with RESOLVED terminal.
TableResolvedTerminal(s) == IF s = "RESOLVED" THEN {} ELSE TableInSpec(s)

-----------------------------------------------------------------------------
(* C1 *)

\* C1 (as claimed): for every structurally valid deal and every pair of
\* statuses, applyStatus succeeds iff to is in allowedTransitions(from) or
\* to = from.
C1_TransitionClosure ==
    (Applied /\ Valid(input)) =>
        (result.ok <=> (next = input.status \/ InTable(input.status, next)))

\* C1 (amended): for every structurally valid deal, every pair of statuses and
\* every now, applyStatus succeeds iff to = from, or to is in
\* allowedTransitions(from) and, when to is DISPUTED, now parses and is not
\* later than deliveryDeadline + disputeWindowSecs.
C1_TransitionClosureInWindow ==
    (Applied /\ Valid(input)) =>
        (result.ok <=>
            \/ next = input.status
            \/ /\ InTable(input.status, next)
               /\ (next = "DISPUTED" => NowInWindow))

C1_Witness ==
    /\ Applied /\ Valid(input)
    /\ input.status = "FUNDED" /\ next = "DISPUTED"
    /\ InTable(input.status, next) /\ NowAfterWindow
    /\ ~result.ok

-----------------------------------------------------------------------------
(* C2 *)

-----------------------------------------------------------------------------
(* C3 *)

\* C3 (as claimed): for a deal in RELEASED or REFUNDED, allowedTransitions is
\* empty and every applyStatus with next # status fails with
\* E_TRANSITION_BLOCKED, whatever now is.
C3_NoTerminalExit ==
    (Applied /\ input.status \in {"RELEASED", "REFUNDED"} /\ next # input.status) =>
        /\ allowedTransitions(input.status) = <<>>
        /\ FailedWith("E_TRANSITION_BLOCKED")

\* C3 (amended): the same for a structurally valid deal in RELEASED or
\* REFUNDED.
C3_NoTerminalExitOfValidDeal ==
    (/\ Applied /\ Valid(input)
     /\ input.status \in {"RELEASED", "REFUNDED"} /\ next # input.status) =>
        /\ allowedTransitions(input.status) = <<>>
        /\ FailedWith("E_TRANSITION_BLOCKED")

C3_Witness ==
    /\ Applied /\ Valid(input)
    /\ input.status = "RELEASED" /\ next = "DISPUTED" /\ NowInWindow
    /\ FailedWith("E_TRANSITION_BLOCKED")

-----------------------------------------------------------------------------
(* C4 *)

\* C4: for a valid deal in FUNDED or DELIVERED with deliveryDeadline = T and
\* disputeWindowSecs = W, applyStatus(deal, DISPUTED, now) succeeds with
\* status DISPUTED when now = T + W seconds and fails with E_TIME_WINDOW when
\* now = T + W + 1 second.
C4_WindowBoundaryInclusive ==
    (/\ Applied /\ Valid(input)
     /\ input.status \in {"FUNDED", "DELIVERED"} /\ next = "DISPUTED"
     /\ nowIso.parses) =>
        /\ NowMs = WindowEndMs(input) =>
              result.ok /\ result.value.status = "DISPUTED"
        /\ NowMs = WindowEndMs(input) + 1000 => FailedWith("E_TIME_WINDOW")

C4_Witness ==
    /\ Applied /\ Valid(input)
    /\ input.status = "DELIVERED" /\ next = "DISPUTED"
    /\ nowIso.parses /\ NowMs = WindowEndMs(input)
    /\ result.ok /\ deal.status = "DISPUTED"

-----------------------------------------------------------------------------
(* C5 *)

\* C5: for a valid deal in DELIVERED, applyStatus(deal, REFUNDED, now) with
\* now later than deliveryDeadline + disputeWindowSecs is rejected with
\* E_TIME_WINDOW.
C5_LateRefundTimeWindow ==
    (/\ Applied /\ Valid(input)
     /\ input.status = "DELIVERED" /\ next = "REFUNDED" /\ NowAfterWindow) =>
        FailedWith("E_TIME_WINDOW")

-----------------------------------------------------------------------------
(* C6 *)

\* C6: for a valid deal in DELIVERED, applyStatus(deal, RELEASED, now)
\* succeeds for every now, also after deliveryDeadline + disputeWindowSecs.
C6_LateReleasePermitted ==
    (Applied /\ Valid(input) /\ input.status = "DELIVERED" /\ next = "RELEASED") =>
        result.ok /\ result.value.status = "RELEASED"

C6_Witness ==
    /\ Applied /\ Valid(input)
    /\ input.status = "DELIVERED" /\ next = "RELEASED" /\ NowAfterWindow
    /\ result.ok /\ deal.status = "RELEASED"

-----------------------------------------------------------------------------
(* C7 *)

\* C7 (as claimed): for every deal and every now,
\* applyStatus(deal, deal.status, now) succeeds and returns a deal equal to
\* the input in every field.
C7_SelfTransitionAlwaysSucceeds ==
    (Applied /\ next = input.status) => (result.ok /\ result.value = input)

\* C7 (amended): for every structurally valid deal and every now,
\* applyStatus(deal, deal.status, now) succeeds and returns a deal equal to
\* the input in every field, also DISPUTED -> DISPUTED after the window.
C7_SelfTransitionOfValidDeal ==
    (Applied /\ Valid(input) /\ next = input.status) =>
        (result.ok /\ result.value = input)

C7_Witness ==
    /\ Applied /\ Valid(input)
    /\ input.status = "DISPUTED" /\ next = "DISPUTED" /\ NowAfterWindow
    /\ result.ok /\ result.value = input

-----------------------------------------------------------------------------
(* C8 *)

\* C8: whenever applyStatus succeeds, the deal it returns passes validateDeal;
\* in particular a returned deal whose status is not INIT has its buyer set.
C8_ReturnedDealIsValid ==
    (Applied /\ result.ok) =>
        /\ Valid(result.value)
        /\ (result.value.status # "INIT" => result.value.buyer # Undefined)

-----------------------------------------------------------------------------
(* C9 *)

\* C9: when applyStatus rejects a transition because next is not in
\* allowedTransitions(deal.status), the error has code E_TRANSITION_BLOCKED
\* and its details contain from = deal.status and to = next.
C9_BlockedCarriesFromTo ==
    (/\ Applied /\ Valid(input)
     /\ next # input.status /\ ~InTable(input.status, next)) =>
        /\ FailedWith("E_TRANSITION_BLOCKED")
        /\ "details" \in DOMAIN result.error
        /\ result.error.details.from = input.status
        /\ result.error.details.to = next

-----------------------------------------------------------------------------
(* C10 *)

\* C10 (as claimed): validateDeal rejects with E_DEAL_INVALID every deal whose
\* fundedPriceUsd is present and is not both positive and equal to priceUsd,
\* whatever the status, INIT included.
C10_FundedPriceRejectedInEveryStatus ==
    (/\ Validated /\ input.fundedPriceUsd # Undefined
     /\ ~(input.fundedPriceUsd[1] > 0 /\ input.fundedPriceUsd[1] = input.priceUsd)) =>
        FailedWith("E_DEAL_INVALID")

\* C10 (amended): validateDeal rejects with E_DEAL_INVALID every deal whose
\* fundedPriceUsd is present and not positive, whatever the status, and every
\* deal in a status other than INIT whose fundedPriceUsd is present and
\* differs from priceUsd.
C10_FundedPriceRejectedOutsideInit ==
    (/\ Validated /\ input.fundedPriceUsd # Undefined
     /\ \/ input.fundedPriceUsd[1] <= 0
        \/ input.status # "INIT" /\ input.fundedPriceUsd[1] # input.priceUsd) =>
        FailedWith("E_DEAL_INVALID")

C10_Witness ==
    /\ Validated /\ input.status = "FUNDED" /\ input.buyer # Undefined
    /\ input.fundedPriceUsd # Undefined
    /\ input.fundedPriceUsd[1] > 0 /\ input.fundedPriceUsd[1] # input.priceUsd
    /\ FailedWith("E_DEAL_INVALID")

-----------------------------------------------------------------------------
(* C11 *)

\* The message of the first failing entry of a list of checks, <<>> if none.
FirstFailure(checks) ==
    IF \A i \in DOMAIN checks : ~checks[i].bad
    THEN <<>>
    ELSE LET i == CHOOSE k \in DOMAIN checks :
                      checks[k].bad /\ \A j \in 1..(k - 1) : ~checks[j].bad
         IN  checks[i].msg

IdBad(d) == d.dealId \in {"", " "}
SellerBad(d) == d.seller \in {"", " "}
PriceBad(d) == d.priceUsd < 1
FundedNotPositive(d) == Len(d.fundedPriceUsd) = 1 /\ d.fundedPriceUsd[1] < 1
FundedNotEqual(d) ==
    Len(d.fundedPriceUsd) = 1 /\ d.status # "INIT" /\ d.fundedPriceUsd # <<d.priceUsd>>
DeadlineBad(d) == ~d.deliveryDeadline.parses
WindowBad(d) == d.disputeWindowSecs < 1
StatusBad(d) == d.status \notin DealStatuses
EvidenceBlank(d) ==
    Len(d.evidenceCids) = 1 /\ \E c \in Range(d.evidenceCids[1]) : c \in {"", " "}
EvidenceDuplicated(d) ==
    /\ Len(d.evidenceCids) = 1
    /\ \E i, j \in DOMAIN d.evidenceCids[1] :
          i # j /\ d.evidenceCids[1][i] = d.evidenceCids[1][j]
BuyerMissing(d) == d.status # "INIT" /\ d.buyer = <<>>

Check(bad, msg) == [bad |-> bad, msg |-> msg]

\* The order of the claim: the fundedPriceUsd equality check goes with the price.
ChecksAsClaimed(d) ==
    << Check(IdBad(d), <<"Missing or empty dealId">>),
       Check(SellerBad(d), <<"Missing or empty seller">>),
       Check(PriceBad(d), <<"priceUsd must be positive cents">>),
       Check(FundedNotPositive(d), <<"fundedPriceUsd must be positive cents when present">>),
       Check(FundedNotEqual(d), <<"fundedPriceUsd must equal priceUsd (baseline policy)">>),
       Check(DeadlineBad(d), <<"deliveryDeadline must be ISO string">>),
       Check(WindowBad(d), <<"disputeWindowSecs must be > 0">>),
       Check(StatusBad(d), <<"Unknown status: ", d.status>>),
       Check(EvidenceBlank(d), <<"evidenceCids must contain non-empty strings">>),
       Check(EvidenceDuplicated(d), <<"evidenceCids contains duplicates">>),
       Check(BuyerMissing(d), <<"buyer must be set once deal leaves INIT">>) >>

\* The order of the code: the fundedPriceUsd equality check comes last.
ChecksEqualityLast(d) ==
    << Check(IdBad(d), <<"Missing or empty dealId">>),
       Check(SellerBad(d), <<"Missing or empty seller">>),
       Check(PriceBad(d), <<"priceUsd must be positive cents">>),
       Check(FundedNotPositive(d), <<"fundedPriceUsd must be positive cents when present">>),
       Check(DeadlineBad(d), <<"deliveryDeadline must be ISO string">>),
       Check(WindowBad(d), <<"disputeWindowSecs must be > 0">>),
       Check(StatusBad(d), <<"Unknown status: ", d.status>>),
       Check(EvidenceBlank(d), <<"evidenceCids must contain non-empty strings">>),
       Check(EvidenceDuplicated(d), <<"evidenceCids contains duplicates">>),
       Check(BuyerMissing(d), <<"buyer must be set once deal leaves INIT">>),
       Check(FundedNotEqual(d), <<"fundedPriceUsd must equal priceUsd (baseline policy)">>) >>

ReportsFirstOf(checks) ==
    IF FirstFailure(checks) = <<>>
    THEN result.ok /\ result.value = input
    ELSE FailedWith("E_DEAL_INVALID") /\ result.error.message = FirstFailure(checks)

\* C11 (as claimed): validateDeal returns the single error of the first
\* violated check in the order id, seller, price with the fundedPriceUsd
\* positivity and equality checks, deliveryDeadline, disputeWindowSecs, status,
\* evidenceCids, buyer set outside INIT; it returns ok(deal) only when no check
\* is violated.
C11_FailFastAsClaimed == Validated => ReportsFirstOf(ChecksAsClaimed(input))

\* C11 (amended): the same with the fundedPriceUsd equality check (applied
\* outside INIT) last: id, seller, price, fundedPriceUsd positive,
\* deliveryDeadline, disputeWindowSecs, status, evidenceCids, buyer set outside
\* INIT, fundedPriceUsd equal to priceUsd outside INIT.
C11_FailFastEqualityLast == Validated => ReportsFirstOf(ChecksEqualityLast(input))

C11_Witness ==
    /\ Validated
    /\ FundedNotEqual(input) /\ ~FundedNotPositive(input)
    /\ DeadlineBad(input) /\ BuyerMissing(input)
    /\ ~IdBad(input) /\ ~SellerBad(input) /\ ~PriceBad(input)
    /\ FailedWith("E_DEAL_INVALID")
    /\ result.error.message = <<"deliveryDeadline must be ISO string">>

-----------------------------------------------------------------------------
(* C12 *)

\* C12: on success applyStatus returns a record whose fields other than
\* status (dealId, seller, buyer, priceUsd, fundedPriceUsd, deliveryDeadline,
\* disputeWindowSecs, evidenceCids) equal the input's and whose status is
\* next; on failure it returns an error and no deal, and the caller's deal
\* stays the input.
C12_Frame ==
    Applied =>
        IF result.ok
        THEN /\ DOMAIN result.value = DOMAIN input
             /\ \A f \in DOMAIN input \ {"status"} : result.value[f] = input[f]
             /\ result.value.status = next
             /\ deal = result.value
        ELSE /\ DOMAIN result = {"ok", "error"}
             /\ deal = input

C12_Witness ==
    /\ Applied /\ result.ok
    /\ input.status = "INIT" /\ next = "FUNDED"
    /\ input.fundedPriceUsd # <<input.priceUsd>>
    /\ deal.status = "FUNDED" /\ deal.fundedPriceUsd = input.fundedPriceUsd

-----------------------------------------------------------------------------
(* Vocabulary of the calculator properties *)

Computed == op = "computePayouts"

Calculated == op = "calculatePayouts"

IsThrown(r) == "thrown" \in DOMAIN r

InBps(b) == b >= 0 /\ b <= 10000

\* The split resolution's buyer share is unspecified or in [0, 10000].
ShareInRange(resolution) ==
    resolution.buyerShareBps = <<>> \/ InBps(resolution.buyerShareBps[1])

\* floor(x * bps / 10000) for x * bps >= 0
FloorBps(x, bps) == (x * bps) \div 10000

-----------------------------------------------------------------------------
(* C13 *)

\* C13: for every amountTotal >= 0, protocolFeeBps in [0,10000], resolution
\* kind and buyerShareBps in [0,10000] or unspecified, computePayouts returns
\* buyerRefund + sellerPayout + protocolFee = amountTotal.
C13_PayoutConservation ==
    (/\ Computed
     /\ input.funding.amountTotal >= 0 /\ InBps(input.funding.protocolFeeBps)
     /\ ShareInRange(input.resolution)) =>
        /\ ~IsThrown(result)
        /\ result.buyerRefund + result.sellerPayout + result.protocolFee
              = input.funding.amountTotal

\* A split of an amount below 10000 whose divisions truncate.
C13_Witness ==
    /\ Computed /\ ~IsThrown(result)
    /\ input.funding.amountTotal \in 1..9999
    /\ input.funding.protocolFeeBps \in 1..9999
    /\ input.resolution.kind = "split"
    /\ input.resolution.buyerShareBps = <<3333>>
    /\ result.protocolFee = 0
    /\ result.buyerRefund * 10000 # input.funding.amountTotal * 3333
    /\ result.buyerRefund + result.sellerPayout + result.protocolFee
          = input.funding.amountTotal

-----------------------------------------------------------------------------
(* C14 *)

\* C14: for every amount, fee configuration and hasAffiliate flag,
\* calculatePayouts returns platformNet + affiliateReward + sellerReceivable
\* = the input amount = totalEscrow.
C14_DistributionConservation ==
    Calculated =>
        /\ result.platformNet + result.affiliateReward + result.sellerReceivable
              = input.amountCents
        /\ result.totalEscrow = input.amountCents

C14_Witness ==
    /\ Calculated /\ input.hasAffiliate
    /\ result.affiliateReward > 0 /\ result.platformNet > 0
    /\ result.sellerReceivable > 0
    /\ result.platformNet + result.affiliateReward + result.sellerReceivable
          = input.amountCents

-----------------------------------------------------------------------------
(* C15 *)

\* C15: for every amount >= 0 and every configuration with basis points in
\* [0,10000] and non-negative min/max fee, platformNet, affiliateReward and
\* sellerReceivable are all >= 0, also when the amount is below minFeeCents.
C15_PayoutsNonNegative ==
    (/\ Calculated /\ input.amountCents >= 0
     /\ InBps(input.config.baseRateBps) /\ InBps(input.config.affiliateShareBps)
     /\ input.config.minFeeCents >= 0 /\ input.config.maxFeeCents >= 0) =>
        /\ result.platformNet >= 0
        /\ result.affiliateReward >= 0
        /\ result.sellerReceivable >= 0

-----------------------------------------------------------------------------
(* C16 *)

FeeCharged == result.platformNet + result.affiliateReward

ClampedAsClaimed ==
    LET gross == FloorBps(input.amountCents, input.config.baseRateBps)
    IN  /\ gross < input.config.minFeeCents => FeeCharged = input.config.minFeeCents
        /\ gross > input.config.maxFeeCents => FeeCharged = input.config.maxFeeCents
        /\ FeeCharged >= input.config.minFeeCents
        /\ FeeCharged <= input.config.maxFeeCents

\* C16 (as claimed): whenever floor(amount * baseRateBps / 10000) is below
\* minFeeCents the fee charged is minFeeCents, whenever it is above
\* maxFeeCents the fee charged is maxFeeCents, and the fee charged always lies
\* in [minFeeCents, maxFeeCents].
C16_FeeClamped == Calculated => ClampedAsClaimed

\* C16 (amended): the same for every configuration with
\* minFeeCents <= maxFeeCents.
C16_FeeClampedWhenMinAtMostMax ==
    (Calculated /\ input.config.minFeeCents <= input.config.maxFeeCents) =>
        ClampedAsClaimed

C16_Witness ==
    /\ Calculated /\ input.config.minFeeCents < input.config.maxFeeCents
    /\ FloorBps(input.amountCents, input.config.baseRateBps) > input.config.maxFeeCents
    /\ input.config.minFeeCents > 0
    /\ FeeCharged = input.config.maxFeeCents

-----------------------------------------------------------------------------
(* C17 *)

ReferenceSplit(funding, resolution) ==
    LET fee == FloorBps(funding.amountTotal, funding.protocolFeeBps)
        net == funding.amountTotal - fee
        share == IF resolution.buyerShareBps = <<>> THEN 5000
                 ELSE resolution.buyerShareBps[1]
        refund == FloorBps(net, share)
    IN  IF resolution.kind = "release_to_seller"
        THEN [buyerRefund |-> 0, sellerPayout |-> net, protocolFee |-> fee]
        ELSE IF resolution.kind = "refund_to_buyer"
        THEN [buyerRefund |-> net, sellerPayout |-> 0, protocolFee |-> fee]
        ELSE [buyerRefund |-> refund, sellerPayout |-> net - refund, protocolFee |-> fee]

ScenarioFunding == [amountTotal |-> 10000, protocolFeeBps |-> 500]

\* C17: on valid input computePayouts returns the reference split: fee =
\* floor(amountTotal * protocolFeeBps / 10000), net = amountTotal - fee,
\* release_to_seller pays net to the seller, refund_to_buyer refunds net,
\* split refunds floor(net * buyerShareBps / 10000) with 5000 as the default
\* share and pays the seller the rest; amount 10000, fee 500 bps, buyer share
\* 3000 bps gives 2850 / 6650 / 500.
C17_MatchesReferenceSplit ==
    (/\ Computed
     /\ input.funding.amountTotal >= 0 /\ InBps(input.funding.protocolFeeBps)
     /\ (input.resolution.kind = "split" => ShareInRange(input.resolution))) =>
        /\ result = ReferenceSplit(input.funding, input.resolution)
        /\ (/\ input.funding = ScenarioFunding
            /\ input.resolution = [kind |-> "split", buyerShareBps |-> <<3000>>]) =>
               result = [buyerRefund |-> 2850, sellerPayout |-> 6650, protocolFee |-> 500]
        /\ (/\ input.funding = ScenarioFunding
            /\ input.resolution.kind = "release_to_seller") =>
               result = [buyerRefund |-> 0, sellerPayout |-> 9500, protocolFee |-> 500]

C17_Witness ==
    /\ Computed
    /\ input.funding = ScenarioFunding
    /\ input.resolution = [kind |-> "split", buyerShareBps |-> <<>>]
    /\ result = [buyerRefund |-> 4750, sellerPayout |-> 4750, protocolFee |-> 500]

-----------------------------------------------------------------------------
(* C18 *)

\* C18: computePayouts fails, producing no payout breakdown, for every
\* amountTotal < 0, every protocolFeeBps outside [0,10000] and, for a split,
\* every supplied buyerShareBps outside [0,10000]; it fails for no input
\* within the three ranges.
C18_RejectsExactlyInvalidInput ==
    Computed =>
        /\ IsThrown(result) <=>
              \/ input.funding.amountTotal < 0
              \/ ~InBps(input.funding.protocolFeeBps)
              \/ /\ input.resolution.kind = "split"
                 /\ ~ShareInRange(input.resolution)
        /\ IsThrown(result) => DOMAIN result = {"thrown", "message"}
        /\ ~IsThrown(result) =>
              DOMAIN result = {"buyerRefund", "sellerPayout", "protocolFee"}

C18_Witness ==
    /\ Computed
    /\ input.funding.amountTotal >= 0 /\ input.funding.protocolFeeBps = 10001
    /\ IsThrown(result)

-----------------------------------------------------------------------------
(* C19 *)

\* C19: validateDeal, applyStatus, calculatePayouts and computePayouts report
\* each failure as a returned tagged failure value with an error code; none
\* of them terminates by throwing, for any input.
C19_FailuresAreValues ==
    (op \in {"validateDeal", "applyStatus", "calculatePayouts", "computePayouts"}) =>
        /\ ~IsThrown(result)
        /\ ("ok" \in DOMAIN result /\ ~result.ok) => "code" \in DOMAIN result.error

-----------------------------------------------------------------------------
(* C20 *)

\* The deals one successful applyStatus call leads to.
Successors(d) ==
    {applyStatus(d, to, now).value :
        <<to, now>> \in {c \in DealStatuses \X Nows : applyStatus(d, c[1], c[2]).ok}}

RECURSIVE ReachableFrom(_)
\* The deals a sequence of successful applyStatus calls leads to from S.
ReachableFrom(S) ==
    LET T == S \cup UNION {Successors(d) : d \in S}
    IN  IF T = S THEN S ELSE ReachableFrom(T)

StatusesReachableFrom(d) == {r.status : r \in ReachableFrom({d})}

\* Some sequence from d passes through RESOLVED and ends in status `end`.
ExecutesThroughResolved(d, end) ==
    \E r \in ReachableFrom({d}) :
        r.status = "RESOLVED" /\ end \in StatusesReachableFrom(r)

-----------------------------------------------------------------------------
(* C21 *)

\* The 7-state status a 5-state status is mapped to.
SevenStateOf(s) == IF s = "INITIATED" THEN "INIT" ELSE s

RECURSIVE TableClosure(_)
\* The statuses reachable from S by transitions of allowedTransitions.
TableClosure(S) ==
    LET T == S \cup UNION {Range(allowedTransitions(x)) : x \in S}
    IN  IF T = S THEN S ELSE TableClosure(T)

\* A non-empty path of table transitions leads from `from` to `to`.
TablePath(from, to) == to \in TableClosure(Range(allowedTransitions(from)))

\* The 5-state predicate has just permitted a non-identity transition.
PermittedFiveState ==
    /\ op = "isTransitionAllowed"
    /\ input[1] \in DealStatus /\ input[2] \in DealStatus
    /\ input[1] # input[2]
    /\ result.value

-----------------------------------------------------------------------------
(* C23 *)

FiveStateTransitions ==
    {<<"INITIATED", "FUNDED">>, <<"FUNDED", "RELEASED">>,
     <<"FUNDED", "DISPUTED">>, <<"DISPUTED", "RELEASED">>,
     <<"DISPUTED", "REFUNDED">>}

\* One of the two predicates has just been asked about a pair of statuses.
PredicateAsked ==
    /\ op \in {"isTransitionAllowed", "isTransitionAllowedBySet"}
    /\ input[1] \in DealStatus /\ input[2] \in DealStatus

\* C23: in both implementations isTransitionAllowed(from, to) is true iff
\* from = to or (from, to) is one of the five transitions; the two
\* implementations agree on all 25 pairs; RELEASED and REFUNDED have no
\* outgoing non-identity transition.
C23_PredicatesAgree ==
    PredicateAsked =>
        /\ result.value <=>
              (input[1] = input[2] \/ <<input[1], input[2]>> \in FiveStateTransitions)
        /\ isTransitionAllowed(input[1], input[2])
              = isTransitionAllowedBySet(input[1], input[2])
        /\ (input[1] \in {"RELEASED", "REFUNDED"} /\ input[2] # input[1]) =>
              ~result.value

C23_Witness ==
    /\ op = "isTransitionAllowedBySet"
    /\ input = <<"DISPUTED", "REFUNDED">>
    /\ result.value
    /\ isTransitionAllowed("DISPUTED", "REFUNDED")
    /\ ~isTransitionAllowedBySet("REFUNDED", "DISPUTED")
    /\ ~isTransitionAllowed("RELEASED", "FUNDED")

-----------------------------------------------------------------------------
(* C22 *)

\* The parsable times of the model that are not earlier than nowIso.
LaterNows == {n \in Nows : n.parses /\ n.secs * 1000 + n.ms >= NowMs}

\* A dispute of a valid FUNDED or DELIVERED deal has just been refused with
\* E_TIME_WINDOW at a parsable time.
DisputeRefusedForTime ==
    /\ Applied /\ Valid(input)
    /\ input.status \in {"FUNDED", "DELIVERED"} /\ next = "DISPUTED"
    /\ nowIso.parses
    /\ FailedWith("E_TIME_WINDOW")

\* C22: for a fixed valid deal in FUNDED or DELIVERED, if
\* applyStatus(deal, DISPUTED, now) fails with E_TIME_WINDOW then
\* applyStatus(deal, DISPUTED, now2) fails with E_TIME_WINDOW for every
\* later time now2 >= now.
C22_WindowsOnlyClose ==
    DisputeRefusedForTime =>
        \A now2 \in LaterNows :
            LET retry == applyStatus(input, "DISPUTED", now2)
            IN  ~retry.ok /\ retry.error.code = "E_TIME_WINDOW"

\* The refusal happens right after the window's end and later times exist.
C22_Witness ==
    /\ DisputeRefusedForTime
    /\ NowMs = WindowEndMs(input) + 1
    /\ \E now2 \in LaterNows : now2 # nowIso
    /\ \E n \in Nows : n.parses /\ applyStatus(input, "DISPUTED", n).ok

-----------------------------------------------------------------------------
(* C25 *)

DeadlineMs(d) == d.deliveryDeadline.secs * 1000 + d.deliveryDeadline.ms

\* C25: applyStatus accepts a transition into DISPUTED only when now lies in
\* [deliveryDeadline, deliveryDeadline + disputeWindowSecs]; a request with
\* now earlier than deliveryDeadline is rejected with E_TIME_WINDOW.
C25_WindowOpensAtDeadline ==
    (/\ Applied /\ Valid(input)
     /\ input.status \in {"FUNDED", "DELIVERED"} /\ next = "DISPUTED"
     /\ nowIso.parses) =>
        /\ result.ok =>
              NowMs >= DeadlineMs(input) /\ NowMs <= WindowEndMs(input)
        /\ NowMs < DeadlineMs(input) => FailedWith("E_TIME_WINDOW")

-----------------------------------------------------------------------------
(* C24 *)

Merged == op = "mergeEvidence"

\* Index of the first occurrence of c in arr (c occurs in arr).
FirstIndex(arr, c) == CHOOSE i \in DOMAIN arr : arr[i] = c /\ \A j \in 1..(i - 1) : arr[j] # c

\* Position of c in `existing` followed by `incoming`, by first occurrence.
FirstSeenAt(c) ==
    IF c \in Range(input.existing) THEN FirstIndex(input.existing, c)
    ELSE Len(input.existing) + FirstIndex(input.incoming, c)

\* C24: mergeEvidence(existing, incoming) contains each non-empty CID of
\* existing or incoming exactly once, the CIDs of existing first in their
\* first-occurrence order, then the new CIDs of incoming in theirs; merging
\* the same incoming list again leaves the result unchanged.
C24_MergeIsOrderedUnion ==
    Merged =>
        /\ Range(result) =
              {c \in Range(input.existing) \cup Range(input.incoming) :
                  isNonEmptyString(c)}
        /\ Cardinality(Range(result)) = Len(result)
        /\ \A i \in DOMAIN result : \A j \in DOMAIN result :
              i < j => FirstSeenAt(result[i]) < FirstSeenAt(result[j])
        /\ mergeEvidence(result, input.incoming) = result

\* Repeats and a blank on both sides, and a new CID that comes before a
\* known one in `incoming`.
C24_Witness ==
    /\ Merged
    /\ input.existing = <<"c2", " ", "c2">>
    /\ input.incoming = <<"c3", "c2", "c1">>
    /\ result = <<"c2", "c3", "c1">>

-----------------------------------------------------------------------------
(* C26 *)

SetValidated == op = "validateMilestoneSet"

OrdersOf(milestones) == {milestones[i].order : i \in DOMAIN milestones}

\* The orders, sorted ascending, are first, first + 1, ... without a gap or
\* a repeat.
GapFreeFrom(first, milestones) ==
    OrdersOf(milestones) = first..(first + Len(milestones) - 1)

-----------------------------------------------------------------------------
(* C27 *)

ActivationAsked == op = "canActivateMilestone"

\* The milestones of the set whose order precedes the target's.
PreviousOf(target, all) ==
    {all[i] : i \in {j \in DOMAIN all : all[j].order = target.order - 1}}

\* C27: a milestone with order k > 1 may be activated only while the
\* milestone with order k - 1 of the same set is APPROVED (never when it is
\* absent or PENDING, ACTIVE, SUBMITTED, REJECTED); the milestone with
\* order 1 may always be activated.
C27_ActivatedInOrder ==
    ActivationAsked =>
        LET target == input.targetMilestone
            previous == PreviousOf(target, input.allMilestones)
        IN  /\ target.order = 1 => result.value
            /\ (target.order > 1 /\ result.value) =>
                  \E m \in previous : m.status = "APPROVED"
            /\ (target.order > 1 /\ previous = {}) => ~result.value
            /\ (target.order > 1 /\ Cardinality(previous) = 1) =>
                  (result.value <=> \A m \in previous : m.status = "APPROVED")

\* Milestone 3 is startable after an approved milestone 2, not milestone 2
\* after a submitted milestone 1.
C27_Witness ==
    /\ ActivationAsked /\ result.value
    /\ input.targetMilestone.order = 3
    /\ input.allMilestones =
          <<Milestone(1, 1, "SUBMITTED"), Milestone(2, 1, "APPROVED")>>
    /\ ~canActivateMilestone(Milestone(2, 1, "PENDING"), input.allMilestones)
    /\ canActivateMilestone(Milestone(1, 1, "PENDING"), <<>>)

-----------------------------------------------------------------------------
(* C28 *)

-----------------------------------------------------------------------------
(* C29 *)

\* Number of non-identity transitions the logged deal has made.
TransitionsMade == Len(trail) - 1

\* No successful applyStatus call leads the deal d to another status.
OnlySelfTransitions(d) ==
    \A to \in DealStatuses, now \in Nows :
        applyStatus(d, to, now).ok => to = d.status

\* C29: in any sequence of successful applyStatus calls on the 7-state
\* machine the status never returns to a status it has left, the sequence
\* has at most 5 non-identity transitions, and it ends in a status from
\* which only self-transitions succeed.
C29_LifecycleTerminates ==
    (IsSevenStateDeal(deal) /\ trail # <<>>) =>
        /\ Cardinality(Range(trail)) = Len(trail)
        /\ TransitionsMade <= 5
        /\ deal.status \notin TableClosure(Range(allowedTransitions(deal.status)))
        /\ \E s \in TableClosure({deal.status}) : allowedTransitions(s) = <<>>
        /\ allowedTransitions(deal.status) = <<>> => OnlySelfTransitions(deal)

\* The longest lifecycle, ended in RESOLVED.
C29_Witness ==
    /\ IsSevenStateDeal(deal) /\ Applied /\ result.ok
    /\ trail = <<"INIT", "FUNDED", "DELIVERED", "DISPUTED", "RESOLVED">>
    /\ deal.status = "RESOLVED"
    /\ OnlySelfTransitions(deal)

-----------------------------------------------------------------------------
(* C30 *)

\* Status `first` occurs in the log before position i.
OccursBefore(first, i) == \E j \in 1..(i - 1) : trail[j] = first

\* C30: in both machines, in every sequence of successful applyStatus calls
\* that starts at INITIATED / INIT, FUNDED occurs before any RELEASED or
\* REFUNDED, and DISPUTED occurs before any REFUNDED.
C30_FundingAndDisputeFirst ==
    (trail # <<>> /\ trail[1] \in {"INIT", "INITIATED"}) =>
        \A i \in DOMAIN trail :
            /\ trail[i] \in {"RELEASED", "REFUNDED"} => OccursBefore("FUNDED", i)
            /\ trail[i] = "REFUNDED" => OccursBefore("DISPUTED", i)

\* A refund at the end of a 5-state lifecycle.
C30_Witness ==
    /\ op = "applyStatusFiveState" /\ ~("thrown" \in DOMAIN result)
    /\ trail = <<"INITIATED", "FUNDED", "DISPUTED", "REFUNDED">>
    /\ deal.status = "REFUNDED"

====
